---- MODULE Spec2Model ----
(***************************************************************************)
(* A model of bonsai's KeyframeAnimation                                   *)
(* (src/runner/animation/keyframe_animation.js).                           *)
(*                                                                         *)
(* JavaScript numbers are modelled as exact rationals [n, d] in lowest     *)
(* terms.  A JavaScript value that may be either a number or a numeric     *)
(* string (a resolved keyframe frame, maxFrame, this.duration) carries a   *)
(* tag saying which, because `>` and `===` treat the two differently.      *)
(***************************************************************************)
EXTENDS Integers, Sequences, FiniteSets, TLC

\* ------------------------------------------------------------------------
\* JavaScript numbers as exact rationals
\* ------------------------------------------------------------------------

RECURSIVE Gcd(_, _)
Gcd(a, b) == IF b = 0 THEN a ELSE Gcd(b, a % b)

Abs(a) == IF a < 0 THEN -a ELSE a

\* The rational n/d in lowest terms with a positive denominator (d # 0).
Rat(n, d) ==
  LET g == Gcd(Abs(n), Abs(d))
      s == IF d < 0 THEN -1 ELSE 1
  IN  [n |-> (s * n) \div g, d |-> (s * d) \div g]

R(i) == [n |-> i, d |-> 1]

RAdd(a, b) == Rat(a.n * b.d + b.n * a.d, a.d * b.d)
RSub(a, b) == Rat(a.n * b.d - b.n * a.d, a.d * b.d)
RMul(a, b) == Rat(a.n * b.n, a.d * b.d)
\* a / b for b # 0 (the callers guard against a zero divisor).
RDiv(a, b) == Rat(a.n * b.d, a.d * b.n)
RLess(a, b) == a.n * b.d < b.n * a.d

\* ------------------------------------------------------------------------
\* JavaScript values: a number, or the string of a decimal integer
\* ------------------------------------------------------------------------

JSNum(r) == [str |-> FALSE, v |-> r]
JSStr(i) == [str |-> TRUE, v |-> R(i)]

\* The decimal digits of a natural number: the string the label is written as.
RECURSIVE Digits(_)
Digits(i) == IF i < 10 THEN <<i>> ELSE Append(Digits(i \div 10), i % 10)

\* s < t for strings of digits, compared code unit by code unit.
RECURSIVE LexLess(_, _)
LexLess(s, t) ==
  IF t = <<>> THEN FALSE
  ELSE IF s = <<>> THEN TRUE
  ELSE IF Head(s) # Head(t) THEN Head(s) < Head(t)
  ELSE LexLess(Tail(s), Tail(t))

\* JavaScript's a > b: two strings compare as strings, anything else as numbers.
JSGreater(a, b) ==
  IF a.str /\ b.str
    THEN LexLess(Digits(b.v.n), Digits(a.v.n))
    ELSE RLess(b.v, a.v)

\* JavaScript's a === b where a is a number: false for a string b.
StrictEqNum(r, b) == ~b.str /\ b.v = r

\* ------------------------------------------------------------------------
\* Keyframe labels
\* ------------------------------------------------------------------------

\* Frames per second of the clock converting time labels ("1s").
Framerate == 2

\* clock.toFrameNumber for a label of n seconds.
ToFrameNumber(n) == R(n * Framerate)

NumLabel(i) == [kind |-> "num", n |-> i]
KwLabel(k) == [kind |-> k, n |-> 0]
PctLabel(i) == [kind |-> "pct", n |-> i]
TimeLabel(i) == [kind |-> "time", n |-> i]

\* The conditional chain with 'end' left out of the pattern for 'to': the
\* label then goes to the clock's conversion.
ResolveLabelWithoutEnd(label, duration) ==
  IF label.kind = "num" THEN JSStr(label.n)
  ELSE IF label.kind \in {"from", "start"} THEN JSNum(R(0))
  ELSE IF label.kind = "to" THEN duration
  ELSE IF label.kind = "pct" THEN JSNum(RDiv(RMul(duration.v, R(label.n)), R(100)))
  ELSE JSNum(ToFrameNumber(label.n))

\* One branch of the conditional chain of _convertKeysToFrames: the frame a
\* label resolves to, given the duration the constructor read.  A numeric label
\* stays the string it is written as.
ResolveLabel(label, duration) ==
  IF label.kind = "num" THEN JSStr(label.n)
  ELSE IF label.kind \in {"from", "start"} THEN JSNum(R(0))
  ELSE IF label.kind \in {"to", "end"} THEN duration
  ELSE IF label.kind = "pct" THEN JSNum(RDiv(RMul(duration.v, R(label.n)), R(100)))
  ELSE JSNum(ToFrameNumber(label.n))

\* ------------------------------------------------------------------------
\* Property maps and the keyframe declaration
\* ------------------------------------------------------------------------

\* A property map is a function from some property names to numbers.

\* tools.mixin(a, b): b's entries laid over a's.
Mixin(a, b) ==
  [p \in DOMAIN a \cup DOMAIN b |-> IF p \in DOMAIN b THEN b[p] ELSE a[p]]

\* A declaration is the sequence of the caller's entries [label, props] in
\* insertion order, with distinct labels.

\* The numeric labels of a declaration, ascending.
RECURSIVE NumericAscending(_)
NumericAscending(ns) ==
  IF ns = {} THEN <<>>
  ELSE LET m == CHOOSE i \in ns : \A j \in ns : i <= j
       IN  <<m>> \o NumericAscending(ns \ {m})

\* Object.keys(keyframes): integer keys ascending, then the other keys in
\* insertion order.  The result is the sequence of the entries in that order.
OwnKeys(decl) ==
  LET idx == DOMAIN decl
      nums == {decl[i].label.n : i \in {j \in idx : decl[j].label.kind = "num"}}
      EntryOf(n) == decl[CHOOSE i \in idx :
                           decl[i].label.kind = "num" /\ decl[i].label.n = n]
      ordered == NumericAscending(nums)
  IN  [k \in 1..Len(ordered) |-> EntryOf(ordered[k])]
      \o SelectSeq(decl, LAMBDA e : e.label.kind # "num")

\* keyframesClean[frame] = value: the property name is the frame's number.
PutFrame(kf, frame, props) ==
  [f \in DOMAIN kf \cup {frame.v} |-> IF f = frame.v THEN props ELSE kf[f]]

\* The loop of _convertKeysToFrames over keys[i..], carrying keyframesClean
\* and maxFrame.
RECURSIVE ConvertLoop(_, _, _, _, _)
ConvertLoop(keys, i, duration, kf, maxFrame) ==
  IF i > Len(keys) THEN [keyframes |-> kf, maxFrame |-> maxFrame]
  ELSE LET frame == ResolveLabel(keys[i].label, duration)
       IN  ConvertLoop(keys, i + 1, duration,
                       PutFrame(kf, frame, keys[i].props),
                       IF JSGreater(frame, maxFrame) THEN frame ELSE maxFrame)

\* _convertKeysToFrames: the clean keyframe map and the duration it leaves in
\* this.duration.
ConvertKeysToFrames(decl, duration) ==
  LET r == ConvertLoop(OwnKeys(decl), 1, duration, <<>>, JSNum(R(0)))
  IN  [keyframes |-> r.keyframes,
       duration |-> IF JSGreater(r.maxFrame, duration) THEN r.maxFrame
                    ELSE duration]

\* Object.keys(this.keyframes).map(Number), sorted ascending.
RECURSIVE SortedKeys(_)
SortedKeys(fs) ==
  IF fs = {} THEN <<>>
  ELSE LET m == CHOOSE f \in fs : \A g \in fs : ~RLess(g, f)
       IN  <<m>> \o SortedKeys(fs \ {m})

\* ------------------------------------------------------------------------
\* The interpolation primitive (PropertiesTween, with no easing)
\* ------------------------------------------------------------------------

\* NaN, the one non-finite number the animation can produce.
NaN == [n |-> 0, d |-> 0]
\* Infinity, as a progress only: the quotient of a positive number by zero.
Infinity == [n |-> 1, d |-> 0]

\* a / b as JavaScript divides, for a > 0 when b = 0.
JSDiv(a, b) == IF b.n = 0 THEN Infinity ELSE RDiv(a, b)

\* from + (to - from) * progress on one property; a missing or NaN operand,
\* and 0 * Infinity, give NaN.
Lerp(from, to, progress) ==
  IF from = NaN \/ to = NaN \/ progress = Infinity THEN NaN
  ELSE RAdd(from, RMul(RSub(to, from), progress))

\* new PropertiesTween(from, to).at(progress): every property of `to`.
At(from, to, progress) ==
  [p \in DOMAIN to |->
     Lerp(IF p \in DOMAIN from THEN from[p] ELSE NaN, to[p], progress)]

\* ------------------------------------------------------------------------
\* _fillInProperties
\* ------------------------------------------------------------------------

\* The order a property map lists its own names in.
PropOrder == <<"x", "y">>

\* The property names of the keyframes, gathered in the order the loop over
\* the sorted keys first meets them.
RECURSIVE GatherProperties(_, _, _, _)
GatherProperties(keyframes, keys, i, acc) ==
  IF i > Len(keys) THEN acc
  ELSE LET have == {acc[k] : k \in DOMAIN acc}
           new == SelectSeq(PropOrder,
                    LAMBDA p : p \in DOMAIN keyframes[keys[i]] /\ p \notin have)
       IN  GatherProperties(keyframes, keys, i + 1, acc \o new)

\* getFrameOfLastDefinedProperty(prop, keysIndex): 0 stands for "no frame"
\* (null), which the caller cannot tell from frame 0 either.
RECURSIVE FrameOfLastDefinedProperty(_, _, _, _)
FrameOfLastDefinedProperty(keyframes, keys, prop, i) ==
  IF i <= 1 THEN [found |-> FALSE, frame |-> R(0)]
  ELSE IF prop \in DOMAIN keyframes[keys[i - 1]]
    THEN [found |-> TRUE, frame |-> keys[i - 1]]
    ELSE FrameOfLastDefinedProperty(keyframes, keys, prop, i - 1)

\* getFrameOfNextDefinedProperty(prop, keysIndex).
RECURSIVE FrameOfNextDefinedProperty(_, _, _, _)
FrameOfNextDefinedProperty(keyframes, keys, prop, i) ==
  IF i > Len(keys) THEN [found |-> FALSE, frame |-> R(0)]
  ELSE IF prop \in DOMAIN keyframes[keys[i]]
    THEN [found |-> TRUE, frame |-> keys[i]]
    ELSE FrameOfNextDefinedProperty(keyframes, keys, prop, i + 1)

\* A value is falsy when it is 0 or NaN.
Falsy(v) == v = R(0) \/ v = NaN

\* prevFrame && keyframes[prevFrame][p] || initialValues[p]
PrevValue(keyframes, prev, p, initialValues) ==
  IF prev.found /\ prev.frame # R(0) /\ ~Falsy(keyframes[prev.frame][p])
    THEN [def |-> TRUE, v |-> keyframes[prev.frame][p]]
  ELSE IF p \in DOMAIN initialValues
    THEN [def |-> TRUE, v |-> initialValues[p]]
  ELSE [def |-> FALSE, v |-> NaN]

\* The value written into keyframes[keys[i]][p], which lacks p; prevValue is
\* defined.
FilledValue(keyframes, keys, i, p, prevValue, lastFrame) ==
  LET frame == keys[i]
      prev == FrameOfLastDefinedProperty(keyframes, keys, p, i)
      next == FrameOfNextDefinedProperty(keyframes, keys, p, i)
      nextValue == IF next.found THEN keyframes[next.frame][p] ELSE prevValue
      nextFrame == IF next.found THEN next.frame ELSE lastFrame.v
  IN  Lerp(prevValue, nextValue,
           JSDiv(RSub(frame, prev.frame), RSub(nextFrame, prev.frame)))

\* The two nested loops of _fillInProperties from (keys[i], properties[j]) on.
\* threw: the error 'No initial value specified for property' was raised; the
\* keyframes filled before it stay filled.
RECURSIVE FillLoop(_, _, _, _, _, _, _)
FillLoop(keyframes, keys, properties, i, j, initialValues, lastFrame) ==
  IF i > Len(keys) THEN [threw |-> FALSE, keyframes |-> keyframes]
  ELSE IF j > Len(properties)
    THEN FillLoop(keyframes, keys, properties, i + 1, 1, initialValues, lastFrame)
  ELSE LET p == properties[j]
           frame == keys[i]
       IN  IF p \in DOMAIN keyframes[frame]
             THEN FillLoop(keyframes, keys, properties, i, j + 1,
                           initialValues, lastFrame)
           ELSE LET prev == FrameOfLastDefinedProperty(keyframes, keys, p, i)
                    prevValue == PrevValue(keyframes, prev, p, initialValues)
                IN  IF ~prevValue.def
                      THEN [threw |-> TRUE, keyframes |-> keyframes]
                    ELSE LET v == FilledValue(keyframes, keys, i, p,
                                              prevValue.v, lastFrame)
                             kf == [keyframes EXCEPT ![frame] =
                                      Mixin(@, [q \in {p} |-> v])]
                         IN  FillLoop(kf, keys, properties, i, j + 1,
                                      initialValues, lastFrame)

FillInProperties(keyframes, keys, initialValues, lastFrame) ==
  FillLoop(keyframes, keys, GatherProperties(keyframes, keys, 1, <<>>), 1, 1,
           initialValues, lastFrame)

\* ------------------------------------------------------------------------
\* _createTweens
\* ------------------------------------------------------------------------

\* The forEach over keys[i..]: totalDuration and prevValues are carried along.
RECURSIVE TweenLoop(_, _, _, _, _, _, _)
TweenLoop(keyframes, keys, duration, i, totalDuration, prevValues, tweens) ==
  IF i > Len(keys) THEN tweens
  ELSE IF keys[i] = R(0)
    THEN TweenLoop(keyframes, keys, duration, i + 1, totalDuration, prevValues,
                   tweens)
  ELSE LET animationDuration == RSub(keys[i], totalDuration)
           startProgress == RDiv(totalDuration, duration.v)
           tween == [fromValues |-> prevValues,
                     toValues |-> keyframes[keys[i]],
                     startProgress |-> startProgress,
                     endProgress |-> RAdd(startProgress,
                                          RDiv(animationDuration, duration.v))]
       IN  TweenLoop(keyframes, keys, duration, i + 1,
                     RAdd(totalDuration, animationDuration),
                     keyframes[keys[i]], Append(tweens, tween))

\* _createTweens taking the first sorted key for the initial keyframe,
\* whatever its frame.
CreateTweensSkippingFirstKey(keyframes, keys, duration, startValues) ==
  TweenLoop(keyframes, keys, duration, 2, R(0), startValues, <<>>)

CreateTweens(keyframes, keys, duration, startValues) ==
  TweenLoop(keyframes, keys, duration, 1, R(0), startValues, <<>>)

\* ------------------------------------------------------------------------
\* The animation's state
\* ------------------------------------------------------------------------

VARIABLES
  args,               \* the constructor's arguments, and the subjects'
                      \* attributes when it ran
  duration,           \* this.duration: a number, or the string of a label
  keyframes,          \* this.keyframes: frame -> property map
  keys,               \* this.keys: the frames, ascending
  subjects,           \* this.subjects: sequence of [subject, tweens]
  repeat,             \* this.repeat: [inf, n], inf for Infinity
  delay,              \* this.delay
  isTimelineBound,    \* this.isTimelineBound
  prevFrame,          \* this.prevFrame
  frame,              \* this.frame
  currentDelay,       \* this.currentDelay
  currentTweenIndex,  \* this.currentTweenIndex (counted from 0)
  isPlaying,          \* this.isPlaying: "undefined", "true" or "false"
  listeners,          \* how often the clock holds onStep as a listener
  attrs,              \* subject -> its current attributes
  clockFrame,         \* the clock's frame number
  op,                 \* the operation that ran last
  opArg,              \* the subject the last operation was called with
  threw,              \* whether the last operation raised an error
  emitted,            \* the notifications the last operation emitted, in order
  applied,            \* the values the last operation's step() applied
  stepped,            \* <<progress>> if the last operation called step()
  history             \* what has happened since construction

vars == <<args, duration, keyframes, keys, subjects, repeat, delay,
          isTimelineBound, prevFrame, frame, currentDelay, currentTweenIndex,
          isPlaying, listeners, attrs, clockFrame, op, opArg, threw, emitted,
          applied, stepped, history>>

schedule == <<args, duration, keyframes, keys, delay, isTimelineBound>>

\* ------------------------------------------------------------------------
\* step
\* ------------------------------------------------------------------------

\* subject.attr(values[i]) on the subject of the i-th binding, for every
\* binding in order; a subject bound twice is written twice.
RECURSIVE ApplyToSubjects(_, _, _, _)
ApplyToSubjects(a, subs, i, values) ==
  IF i > Len(subs) THEN a
  ELSE ApplyToSubjects([a EXCEPT ![subs[i].subject] = Mixin(@, values[i])],
                       subs, i + 1, values)

\* step(progress) staying in the tween it starts in, whatever the progress.
StepWithoutAdvance(subs, a, idx, progress) ==
  IF subs = <<>> \/ idx + 1 > Len(subs[1].tweens)
    THEN [threw |-> TRUE, idx |-> idx, attrs |-> a, values |-> <<>>]
  ELSE LET curTween == subs[1].tweens[idx + 1]
           thisPhaseProgress ==
             RDiv(RSub(progress, curTween.startProgress),
                  RSub(curTween.endProgress, curTween.startProgress))
           values == [i \in DOMAIN subs |->
                        At(subs[i].tweens[idx + 1].fromValues,
                           subs[i].tweens[idx + 1].toValues,
                           thisPhaseProgress)]
       IN  [threw |-> FALSE, idx |-> idx,
            attrs |-> ApplyToSubjects(a, subs, 1, values),
            values |-> values]

\* step(progress) applying the values of the tween it starts in and only
\* then moving on to the next one.
StepApplyingBeforeAdvance(subs, a, idx, progress) ==
  IF subs = <<>> \/ idx + 1 > Len(subs[1].tweens)
    THEN [threw |-> TRUE, idx |-> idx, attrs |-> a, values |-> <<>>]
  ELSE LET tweensLength == Len(subs[1].tweens)
           curTween == subs[1].tweens[idx + 1]
           thisPhaseProgress ==
             RDiv(RSub(progress, curTween.startProgress),
                  RSub(curTween.endProgress, curTween.startProgress))
           values == [i \in DOMAIN subs |->
                        At(subs[i].tweens[idx + 1].fromValues,
                           subs[i].tweens[idx + 1].toValues,
                           thisPhaseProgress)]
       IN  [threw |-> FALSE,
            idx |-> IF RLess(R(1), thisPhaseProgress) /\ idx + 1 < tweensLength
                      THEN idx + 1 ELSE idx,
            attrs |-> ApplyToSubjects(a, subs, 1, values),
            values |-> values]

\* step(progress), from tween index idx: the index it settles on, and the
\* attributes after the interpolated values were applied.  It raises a
\* TypeError when there is no subject or no tween to read.
RECURSIVE Step(_, _, _, _)
Step(subs, a, idx, progress) ==
  IF subs = <<>> \/ idx + 1 > Len(subs[1].tweens)
    THEN [threw |-> TRUE, idx |-> idx, attrs |-> a, values |-> <<>>]
  ELSE LET tweensLength == Len(subs[1].tweens)
           curTween == subs[1].tweens[idx + 1]
           thisPhaseProgress ==
             RDiv(RSub(progress, curTween.startProgress),
                  RSub(curTween.endProgress, curTween.startProgress))
           values == [i \in DOMAIN subs |->
                        At(subs[i].tweens[idx + 1].fromValues,
                           subs[i].tweens[idx + 1].toValues,
                           thisPhaseProgress)]
       IN  IF RLess(R(1), thisPhaseProgress) /\ idx + 1 < tweensLength
             THEN Step(subs, a, idx + 1, progress)
           ELSE [threw |-> FALSE, idx |-> idx,
                 attrs |-> ApplyToSubjects(a, subs, 1, values),
                 values |-> values]

\* ------------------------------------------------------------------------
\* The clock's listener list (event_emitter, not part of this file)
\* ------------------------------------------------------------------------

\* clock.on(type, this, this.onStep): one more registration.
ClockOn(n) == n + 1

\* clock.removeListener(type, this, this.onStep): one registration fewer, if
\* there is one.
ClockRemoveListener(n) == IF n > 0 THEN n - 1 ELSE 0

\* ------------------------------------------------------------------------
\* Bookkeeping for the properties: what has happened since construction
\* ------------------------------------------------------------------------

\* begun: 'beforebegin' has been emitted.  The other fields follow one run:
\* clean says that so far there was at most one effective play(), and no
\* pause(), reset(), subject change, raised error, finished timeline or
\* frame number skipped by a timeline's clock; the counters count
\* the signals received, the play-throughs completed and the 'end'
\* notifications emitted in that run, and are cleared when it is interrupted.
\* run counts the signals the play-through under way has received since it
\* started at frame 0, whatever frame numbers the clock skipped; it is -1
\* when no play-through is being followed: before play(), after 'end', after
\* a pause(), reset(), subject change, raised error or finished timeline.
NoHistory ==
  [begun |-> FALSE, clean |-> TRUE, plays |-> 0, signals |-> 0,
   completed |-> 0, ends |-> 0, run |-> -1]

Interrupted(h) ==
  [begun |-> h.begun, clean |-> FALSE, plays |-> 0, signals |-> 0,
   completed |-> 0, ends |-> 0, run |-> -1]

Has(seq, e) == \E i \in DOMAIN seq : seq[i] = e

\* The history after an effective play() at frame fr.
Started(h, fr) == [h EXCEPT !.run = IF fr = 0 THEN 0 ELSE -1]

\* run after a signal: a completion starts the count of the next cycle or
\* ends it.
RunAfter(run, timelineIsFinished, complete, events) ==
  IF complete THEN (IF Has(events, "play") THEN 0 ELSE -1)
  ELSE IF run < 0 \/ timelineIsFinished THEN -1
  ELSE run + 1

\* The history after an operation that emitted `events`.
Noted(h, events) == [h EXCEPT !.begun = @ \/ Has(events, "beforebegin")]

\* ------------------------------------------------------------------------
\* play, pause, reset
\* ------------------------------------------------------------------------

\* play() emitting 'beforebegin' at whatever frame it is invoked.
PlayEmitsAtAnyFrame(fr) == <<"beforebegin", "play">>

\* What play() emits when it is not already playing.
PlayEmits(fr) ==
  (IF fr = 0 THEN <<"beforebegin">> ELSE <<>>) \o <<"play">>

\* Whether play() forces the subjects to the frame-0 keyframe.
AppliesInitial(kf, idx) == R(0) \in DOMAIN kf /\ idx = 0

\* The subjects' attributes after play() handled the initial values.
PlayAttrs(a, subs, kf, idx) ==
  IF AppliesInitial(kf, idx)
    THEN ApplyToSubjects(a, subs, 1, [i \in DOMAIN subs |-> kf[R(0)]])
    ELSE a

\* play() without the test of this.isPlaying.
PlayWhilePlaying ==
  /\ op' = "play" /\ opArg' = "" /\ threw' = FALSE /\ applied' = <<>>
  /\ stepped' = <<>>
  /\ emitted' = PlayEmits(frame)
  /\ attrs' = PlayAttrs(attrs, subjects, keyframes, currentTweenIndex)
  /\ isPlaying' = "true"
  /\ listeners' = IF isPlaying = "true" THEN listeners ELSE ClockOn(listeners)
  /\ history' =
       Started(IF history.clean /\ history.plays = 0
                 THEN Noted([history EXCEPT !.plays = 1], emitted')
                 ELSE Noted(Interrupted(history), emitted'),
               frame)
  /\ UNCHANGED <<schedule, subjects, repeat, prevFrame, frame, currentDelay,
                 currentTweenIndex, clockFrame>>

Play ==
  /\ op' = "play" /\ opArg' = "" /\ threw' = FALSE /\ applied' = <<>>
  /\ stepped' = <<>>
  /\ IF isPlaying = "true"
       THEN /\ emitted' = <<>>
            /\ UNCHANGED <<isPlaying, listeners, attrs, history>>
       ELSE /\ emitted' = PlayEmits(frame)
            /\ attrs' = PlayAttrs(attrs, subjects, keyframes, currentTweenIndex)
            /\ isPlaying' = "true"
            /\ listeners' = ClockOn(listeners)
            /\ history' =
                 Started(IF history.clean /\ history.plays = 0
                           THEN Noted([history EXCEPT !.plays = 1], emitted')
                           ELSE Noted(Interrupted(history), emitted'),
                         frame)
  /\ UNCHANGED <<schedule, subjects, repeat, prevFrame, frame, currentDelay,
                 currentTweenIndex, clockFrame>>

\* pause() leaving the clock's listener in place.
PauseWithoutUnsubscribing ==
  /\ op' = "pause" /\ opArg' = "" /\ threw' = FALSE /\ applied' = <<>>
  /\ stepped' = <<>>
  /\ emitted' = <<"pause">>
  /\ isPlaying' = "false"
  /\ history' = Interrupted(history)
  /\ UNCHANGED <<schedule, subjects, repeat, prevFrame, frame, currentDelay,
                 currentTweenIndex, attrs, clockFrame, listeners>>

\* pause() flipping the playing flag instead of clearing it.
PauseToggles ==
  /\ op' = "pause" /\ opArg' = "" /\ threw' = FALSE /\ applied' = <<>>
  /\ stepped' = <<>>
  /\ listeners' = ClockRemoveListener(listeners)
  /\ emitted' = <<"pause">>
  /\ isPlaying' = IF isPlaying = "true" THEN "false" ELSE "true"
  /\ history' = Interrupted(history)
  /\ UNCHANGED <<schedule, subjects, repeat, prevFrame, frame, currentDelay,
                 currentTweenIndex, attrs, clockFrame>>

Pause ==
  /\ op' = "pause" /\ opArg' = "" /\ threw' = FALSE /\ applied' = <<>>
  /\ stepped' = <<>>
  /\ listeners' = ClockRemoveListener(listeners)
  /\ emitted' = <<"pause">>
  /\ isPlaying' = "false"
  /\ history' = Interrupted(history)
  /\ UNCHANGED <<schedule, subjects, repeat, prevFrame, frame, currentDelay,
                 currentTweenIndex, attrs, clockFrame>>

\* reset() leaving the active segment index where it is.
ResetKeepsTweenIndex ==
  /\ op' = "reset" /\ opArg' = "" /\ threw' = FALSE /\ applied' = <<>>
  /\ stepped' = <<>>
  /\ frame' = 0
  /\ isPlaying' = "false"
  /\ listeners' = ClockRemoveListener(listeners)
  /\ emitted' = <<>>
  /\ history' = Interrupted(history)
  /\ UNCHANGED <<schedule, subjects, repeat, prevFrame, currentDelay,
                 currentTweenIndex, attrs, clockFrame>>

Reset ==
  /\ op' = "reset" /\ opArg' = "" /\ threw' = FALSE /\ applied' = <<>>
  /\ stepped' = <<>>
  /\ frame' = 0
  /\ isPlaying' = "false"
  /\ currentTweenIndex' = 0
  /\ listeners' = ClockRemoveListener(listeners)
  /\ emitted' = <<>>
  /\ history' = Interrupted(history)
  /\ UNCHANGED <<schedule, subjects, repeat, prevFrame, currentDelay, attrs,
                 clockFrame>>

\* step(progress) called from outside onStep.  again: it repeats the call
\* made just before it, with the same progress.
StepCall(progress) ==
  LET st == Step(subjects, attrs, currentTweenIndex, progress)
  IN  /\ op' = "step"
      /\ opArg' = IF op = "step" /\ stepped = <<progress>>
                    THEN "again" ELSE ""
      /\ threw' = st.threw
      /\ currentTweenIndex' = st.idx
      /\ attrs' = st.attrs
      /\ applied' = st.values
      /\ stepped' = <<progress>>
      /\ emitted' = <<>>
      /\ history' = Interrupted(history)
      /\ UNCHANGED <<schedule, subjects, repeat, prevFrame, frame,
                     currentDelay, isPlaying, listeners, clockFrame>>

\* ------------------------------------------------------------------------
\* onStep
\* ------------------------------------------------------------------------

\* this.repeat === Infinity || this.repeat-- > 0: the outcome of the test ...
RepeatAgain(r) == r.inf \/ r.n > 0

\* The counter decremented only while it is positive.
RepeatAfterWhilePositive(r) ==
  IF r.inf \/ r.n <= 0 THEN r ELSE [r EXCEPT !.n = @ - 1]

\* ... and the counter it leaves: the decrement runs whenever it is evaluated.
RepeatAfter(r) == IF r.inf THEN r ELSE [r EXCEPT !.n = @ - 1]

\* The frame counter after a signal carrying frameNumber, pf being the value
\* of this.prevFrame || frameNumber.
NextFrame(fr, frameNumber, pf, bound) ==
  IF bound
    THEN fr + (IF frameNumber - pf # 0 THEN frameNumber - pf ELSE 1)
    ELSE fr + 1

\* The test that ends a play-through.
Completes(fr, dur, bound, timelineIsFinished) ==
  (bound /\ timelineIsFinished) \/ StrictEqNum(R(fr), dur)

\* The history after a signal of a run.
Signalled(h, timelineIsFinished, irregular, complete, events) ==
  LET run == RunAfter(h.run, timelineIsFinished, complete, events)
  IN  IF ~h.clean THEN [Noted(h, events) EXCEPT !.run = run]
      ELSE IF irregular
        THEN [Noted(Interrupted(h), events) EXCEPT !.run = run]
      ELSE Noted([h EXCEPT !.signals = @ + 1,
                           !.completed = @ + (IF complete THEN 1 ELSE 0),
                           !.ends = @ + (IF Has(events, "end") THEN 1 ELSE 0),
                           !.run = run],
                 events)

\* onStep(_, frameNumber, timelineIsFinished); irregular tells the bookkeeping
\* that the timeline finished or its clock skipped a frame number.
OnStep(frameNumber, timelineIsFinished, irregular) ==
  /\ op' = "onStep" /\ opArg' = ""
  /\ IF currentDelay > 0
       THEN /\ currentDelay' = currentDelay - 1
            /\ threw' = FALSE /\ emitted' = <<>> /\ applied' = <<>>
            /\ stepped' = <<>>
            /\ history' = Signalled(history, timelineIsFinished, irregular,
                                    FALSE, <<>>)
            /\ UNCHANGED <<prevFrame, frame, currentTweenIndex, isPlaying,
                           listeners, attrs, repeat>>
       ELSE LET pf == IF prevFrame # 0 THEN prevFrame ELSE frameNumber
                fr == NextFrame(frame, frameNumber, pf, isTimelineBound)
                progress == RDiv(R(fr), duration.v)
                st == Step(subjects, attrs, currentTweenIndex, progress)
            IN  IF st.threw
                  THEN \* step raised: onStep is left where it stood
                       /\ prevFrame' = pf
                       /\ frame' = fr
                       /\ threw' = TRUE /\ emitted' = <<>> /\ applied' = <<>>
                       /\ stepped' = <<progress>>
                       /\ history' = Interrupted(history)
                       /\ UNCHANGED <<currentDelay, currentTweenIndex,
                                      isPlaying, listeners, attrs, repeat>>
                ELSE IF Completes(fr, duration, isTimelineBound,
                                  timelineIsFinished)
                  THEN \* reset(), then play() again or 'end'
                       /\ prevFrame' = 0
                       /\ currentDelay' = delay
                       /\ frame' = 0
                       /\ currentTweenIndex' = 0
                       /\ repeat' = RepeatAfter(repeat)
                       /\ threw' = FALSE /\ applied' = st.values
                       /\ stepped' = <<progress>>
                       /\ IF RepeatAgain(repeat)
                            THEN /\ emitted' = PlayEmits(0)
                                 /\ attrs' = PlayAttrs(st.attrs, subjects,
                                                       keyframes, 0)
                                 /\ isPlaying' = "true"
                                 /\ listeners' =
                                      ClockOn(ClockRemoveListener(listeners))
                            ELSE /\ emitted' = <<"end">>
                                 /\ attrs' = st.attrs
                                 /\ isPlaying' = "false"
                                 /\ listeners' = ClockRemoveListener(listeners)
                       /\ history' = Signalled(history, timelineIsFinished,
                                               irregular, TRUE, emitted')
                ELSE /\ prevFrame' = frameNumber
                     /\ frame' = fr
                     /\ currentTweenIndex' = st.idx
                     /\ attrs' = st.attrs
                     /\ threw' = FALSE /\ emitted' = <<>>
                     /\ applied' = st.values
                     /\ stepped' = <<progress>>
                     /\ history' = Signalled(history, timelineIsFinished,
                                             irregular, FALSE, <<>>)
                     /\ UNCHANGED <<currentDelay, isPlaying, listeners, repeat>>
  /\ UNCHANGED <<schedule, subjects>>

\* ------------------------------------------------------------------------
\* The clock
\* ------------------------------------------------------------------------

\* The last frame number the clock reaches.
MaxClock == 5
\* By how many frames the clock may advance from one signal to the next.
MaxSkip == 2

\* The clock advances and signals the animation, which is listening; a
\* free-running animation hears 'tick', which carries no timelineIsFinished.
Signal ==
  \E k \in 1..MaxSkip, timelineIsFinished \in BOOLEAN :
    /\ listeners > 0
    /\ clockFrame + k <= MaxClock
    /\ timelineIsFinished => isTimelineBound
    /\ clockFrame' = clockFrame + k
    /\ OnStep(clockFrame + k, timelineIsFinished,
              timelineIsFinished \/ (isTimelineBound /\ k > 1))

\* The clock advances while the animation is not listening.
ClockIdle ==
  \E k \in 1..MaxSkip :
    /\ listeners = 0
    /\ clockFrame + k <= MaxClock
    /\ clockFrame' = clockFrame + k
    /\ op' = "idle" /\ opArg' = "" /\ threw' = FALSE
    /\ emitted' = <<>> /\ applied' = <<>> /\ stepped' = <<>>
    /\ UNCHANGED <<schedule, subjects, repeat, prevFrame, frame, currentDelay,
                   currentTweenIndex, isPlaying, listeners, attrs, history>>

\* ------------------------------------------------------------------------
\* addSubject, removeSubject
\* ------------------------------------------------------------------------

\* How many bindings this.subjects may hold.
MaxSubjects == 2

\* tools.mixin(subject.attr(), this.keyframes[0])
InitialAttributes(a, kf) == IF R(0) \in DOMAIN kf THEN Mixin(a, kf[R(0)]) ELSE a

\* addSubject(subject) on keyframes kf and bindings subs, the subject's
\* attributes being a: the keyframes and bindings it leaves, and whether
\* _fillInProperties raised (then nothing is pushed).
AddSubjectTo(kf, subs, ks, dur, s, a) ==
  LET initialAttributes == InitialAttributes(a, kf)
      fill == IF subs = <<>>
                THEN FillInProperties(kf, ks, initialAttributes, dur)
                ELSE [threw |-> FALSE, keyframes |-> kf]
  IN  [threw |-> fill.threw,
       keyframes |-> fill.keyframes,
       subjects |->
         IF fill.threw THEN subs
         ELSE Append(subs,
                     [subject |-> s,
                      tweens |-> CreateTweens(fill.keyframes, ks, dur,
                                              initialAttributes)])]

AddSubject(s) ==
  /\ Len(subjects) < MaxSubjects
  /\ op' = "addSubject" /\ opArg' = s /\ emitted' = <<>> /\ applied' = <<>>
  /\ stepped' = <<>>
  /\ LET r == AddSubjectTo(keyframes, subjects, keys, duration, s, attrs[s])
     IN  /\ keyframes' = r.keyframes
         /\ threw' = r.threw
         /\ subjects' = r.subjects
  /\ history' = Interrupted(history)
  /\ UNCHANGED <<args, duration, keys, delay, isTimelineBound, repeat,
                 prevFrame, frame, currentDelay, currentTweenIndex, isPlaying,
                 listeners, attrs, clockFrame>>

\* addSubjects(subjects) from the i-th subject on; it stops at the first
\* addSubject that raises.
RECURSIVE AddSubjectsTo(_, _, _, _, _, _, _)
AddSubjectsTo(kf, subs, ks, dur, list, i, a) ==
  IF i > Len(list) THEN [threw |-> FALSE, keyframes |-> kf, subjects |-> subs]
  ELSE LET r == AddSubjectTo(kf, subs, ks, dur, list[i], a[list[i]])
       IN  IF r.threw THEN r
           ELSE AddSubjectsTo(r.keyframes, r.subjects, ks, dur, list, i + 1, a)

IsBound(subs, s) == \E i \in DOMAIN subs : subs[i].subject = s

\* this.subjects.splice(i, 1) at the first binding of s.
RemoveFirst(subs, s) ==
  LET i == CHOOSE k \in DOMAIN subs :
             subs[k].subject = s /\ \A j \in 1..(k - 1) : subs[j].subject # s
  IN  SubSeq(subs, 1, i - 1) \o SubSeq(subs, i + 1, Len(subs))

\* Whether removeSubject raises: after the splice it reads
\* this.animations.length, and a KeyframeAnimation has no animations.
RemoveRaises(subs, s) == IsBound(subs, s)

RemoveSubject(s) ==
  /\ op' = "removeSubject" /\ opArg' = s /\ emitted' = <<>> /\ applied' = <<>>
  /\ stepped' = <<>>
  /\ subjects' = IF IsBound(subjects, s) THEN RemoveFirst(subjects, s)
                 ELSE subjects
  /\ threw' = RemoveRaises(subjects, s)
  /\ history' = Interrupted(history)
  /\ UNCHANGED <<schedule, repeat, prevFrame, frame, currentDelay,
                 currentTweenIndex, isPlaying, listeners, attrs, clockFrame>>

\* ------------------------------------------------------------------------
\* Construction
\* ------------------------------------------------------------------------

\* (options.repeat || 0) - (options.repeat % 1 || 0), for a whole number or
\* Infinity (Infinity % 1 is NaN, so nothing is subtracted from it).
ParseRepeat(r) == IF r.inf THEN r ELSE [r EXCEPT !.n = @ - (@ % 1)]

\* What the constructor computes from its arguments; threw when adding
\* options.subjects raised, and then no animation is built.
Construct(cfg) ==
  LET declared == JSNum(R(cfg.duration))
      conv == ConvertKeysToFrames(cfg.keyframes, declared)
      ks == SortedKeys(DOMAIN conv.keyframes)
      added == AddSubjectsTo(conv.keyframes, <<>>, ks, conv.duration,
                             cfg.subjects, 1, cfg.attrs)
  IN  [threw |-> added.threw, duration |-> conv.duration, keys |-> ks,
       keyframes |-> added.keyframes, subjects |-> added.subjects]

\* The animation new KeyframeAnimation(clock, cfg.duration, cfg.keyframes,
\* {repeat, delay, isTimelineBound, subjects}) builds.
InitFrom(cfg) ==
  LET c == Construct(cfg)
  IN  /\ ~c.threw
      /\ args = [duration |-> cfg.duration, keyframes |-> cfg.keyframes,
                 repeat |-> cfg.repeat, attrs |-> cfg.attrs]
      /\ duration = c.duration
      /\ keyframes = c.keyframes
      /\ keys = c.keys
      /\ subjects = c.subjects
      /\ repeat = ParseRepeat(cfg.repeat)
      /\ delay = cfg.delay
      /\ isTimelineBound = cfg.isTimelineBound
      /\ prevFrame = 0
      /\ frame = 0
      /\ currentDelay = cfg.delay
      /\ currentTweenIndex = 0
      /\ isPlaying = "undefined"
      /\ listeners = 0
      /\ attrs = cfg.attrs
      /\ clockFrame = 0
      /\ op = "new" /\ opArg = "" /\ threw = FALSE
      /\ emitted = <<>> /\ applied = <<>> /\ stepped = <<>>
      /\ history = NoHistory

\* ------------------------------------------------------------------------
\* The inputs
\* ------------------------------------------------------------------------

Subjects == {"s1", "s2"}

PX(x) == [p \in {"x"} |-> R(x)]
PXY(x, y) == [p \in {"x", "y"} |-> IF p = "x" THEN R(x) ELSE R(y)]

\* The subjects' attributes at construction: s2 has no y.
SubjectAttrs == [s \in Subjects |-> IF s = "s1" THEN PXY(2, 2) ELSE PX(6)]

Finite(i) == [inf |-> FALSE, n |-> i]
Unlimited == [inf |-> TRUE, n |-> 0]

\* The declarations of one or two keyframes with distinct labels among
\* `labels`, the first entry carrying `first`, the second `second`.
Declarations(labels, first, second) ==
  {<<[label |-> l, props |-> first]>> : l \in labels}
  \cup {<<[label |-> lm[1], props |-> first],
            [label |-> lm[2], props |-> second]>> :
          lm \in {pair \in labels \X labels : pair[1] # pair[2]}}

PlayLabels ==
  {KwLabel("from"), KwLabel("to"), NumLabel(1), NumLabel(3), PctLabel(150)}

PlayConfigs ==
  [duration : {2},
   keyframes : Declarations(PlayLabels, PXY(0, 4), PX(8)),
   repeat : {Finite(0), Finite(1), Unlimited},
   delay : {0, 1},
   isTimelineBound : BOOLEAN,
   subjects : {<<"s1", "s2">>},
   attrs : {SubjectAttrs}]

\* Playback of an animation built with its subjects.
Init == \E cfg \in PlayConfigs : InitFrom(cfg)

Next ==
  \/ Play
  \/ Pause
  \/ Reset
  \/ Signal
  \/ ClockIdle

Spec == Init /\ [][Next]_vars

\* The schedule and the subject bindings, for declarations over more labels and
\* an animation built without subjects.
ScheduleLabels ==
  {NumLabel(0), NumLabel(3), NumLabel(10), KwLabel("from"), KwLabel("start"),
   KwLabel("to"), KwLabel("end"), PctLabel(50), PctLabel(150), TimeLabel(1)}

ScheduleConfigs ==
  [duration : {2, 3, 4},
   keyframes : Declarations(ScheduleLabels, PXY(0, 4), PX(8)),
   repeat : {Finite(0)},
   delay : {0},
   isTimelineBound : {TRUE},
   subjects : {<<>>},
   attrs : {SubjectAttrs}]

InitSchedule == \E cfg \in ScheduleConfigs : InitFrom(cfg)

NextSchedule ==
  \/ \E s \in Subjects : AddSubject(s)
  \/ \E s \in Subjects : RemoveSubject(s)

SpecSchedule == InitSchedule /\ [][NextSchedule]_vars

\* Gap-filling, tween construction and step(): declarations of one to three
\* keyframes at frames 0, 1, 2 and 4 of a duration of 4, each declaring x
\* alone or x and y, and subjects bound one by one.
FillLabels == <<KwLabel("from"), NumLabel(1), NumLabel(2), KwLabel("to")>>

FillMaps == {PX(8), PXY(0, 0), PXY(8, 4)}

\* The declaration with the labels numbered in `which`, in that order, the
\* label numbered i carrying maps[i].
DeclarationOf(which, maps) ==
  LET order == NumericAscending(which)
  IN  [k \in 1..Len(order) |->
         [label |-> FillLabels[order[k]], props |-> maps[order[k]]]]

FillDeclarations ==
  UNION {{DeclarationOf(which, maps) : maps \in [which -> FillMaps]} :
           which \in SUBSET DOMAIN FillLabels \ {{}, DOMAIN FillLabels}}

FillConfigs ==
  [duration : {4},
   keyframes : FillDeclarations,
   repeat : {Finite(0)},
   delay : {0},
   isTimelineBound : {TRUE},
   subjects : {<<>>},
   attrs : {SubjectAttrs}]

\* The progress values step() is called with: the frames 2, 3 and 4 of 4.
StepProgress == {Rat(1, 2), Rat(3, 4), R(1)}

InitFill == \E cfg \in FillConfigs : InitFrom(cfg)

NextFill ==
  \/ \E s \in Subjects : AddSubject(s)
  \/ \E progress \in StepProgress : StepCall(progress)

SpecFill == InitFill /\ [][NextFill]_vars

\* ------------------------------------------------------------------------
\* Properties
\* ------------------------------------------------------------------------

\* One play() and then nothing but regular signals.
CleanRun == history.clean /\ history.plays = 1

\* The signals one play-through takes: the delay, then one per frame.
CycleLength == RAdd(R(delay), duration.v)

\* C1: with a finite repeat count r, one play() followed by uninterrupted
\* signals yields exactly r + 1 play-throughs: never more, all of them done
\* once (r + 1) * (delay + duration) signals were received, and 'end' is
\* emitted once, by the completion of play-through r + 1 and by no earlier
\* one.  With repeat unlimited, 'end' is never emitted.
C1_RepeatPlayThroughs ==
  CleanRun =>
    IF args.repeat.inf THEN history.ends = 0
    ELSE LET r == args.repeat.n
         IN  /\ history.completed <= r + 1
             /\ history.ends = (IF history.completed = r + 1 THEN 1 ELSE 0)
             /\ ~RLess(R(history.signals), RMul(R(r + 1), CycleLength))
                  => history.completed = r + 1

\* C2: with a delay d > 0, the first d signals of every play-through only
\* count the delay down (frame stays 0, step applies nothing), the
\* play-through completes on its signal number d + duration, and the
\* completion restores the delay counter to d.
C2_DelayThenDuration ==
  (CleanRun /\ delay > 0) =>
    LET j == RSub(R(history.signals), RMul(R(history.completed), CycleLength))
    IN  /\ ~RLess(j, R(0))
        /\ RLess(j, CycleLength)
        /\ ~RLess(R(delay), j) =>
             /\ frame = 0
             /\ R(currentDelay) = RSub(R(delay), j)
             /\ (op = "onStep" /\ j # R(0)) => applied = <<>>
        /\ RLess(R(delay), j) => currentDelay = 0

\* C3 (as claimed): once 'beforebegin' has been emitted, no later play()
\* emits it again.
C3_BeginOnlyOnce ==
  [][history.begun => ~Has(emitted', "beforebegin")]_vars

\* C3 (amended): 'beforebegin' is emitted by exactly the play() calls that
\* take effect with the frame counter at 0, be it the first play(), the
\* play() onStep issues to start a repeat cycle, or a play() after reset() or
\* after completion; a play() at a later frame emits 'play' alone.
C3_BeginOnEveryPlayAtFrameZero ==
  /\ Has(emitted, "beforebegin") <=> (Has(emitted, "play") /\ frame = 0)
  /\ Has(emitted, "play") => op \in {"play", "onStep"}

\* 'beforebegin' emitted a second time, by the play() of a repeat cycle.
C3_Witness ==
  op = "onStep" /\ Has(emitted, "beforebegin") /\ history.completed > 0

\* C4: an effective play() forces the bound subjects to the frame-0 keyframe
\* exactly when the frame counter is 0 and that keyframe exists; a play() that
\* resumes at a later frame leaves the subjects' values alone.
C4_InitialOnlyAtFrameZero ==
  [][(op' = "play" /\ Has(emitted', "play")) =>
       attrs' = IF frame = 0 /\ R(0) \in DOMAIN keyframes
                  THEN ApplyToSubjects(attrs, subjects, 1,
                         [i \in DOMAIN subjects |-> keyframes[R(0)]])
                  ELSE attrs]_vars

\* C5: removeSubject(s) returns normally, removes the binding of s and
\* nothing else.
C5_RemoveSubjectReturns ==
  [][op' = "removeSubject" =>
       /\ ~threw'
       /\ subjects' = SelectSeq(subjects, LAMBDA b : b.subject # opArg')
       /\ UNCHANGED <<schedule, repeat, prevFrame, frame, currentDelay,
                      currentTweenIndex, isPlaying, listeners, attrs>>]_vars

\* C6: play() on an animation that is playing changes nothing and emits
\* nothing.
C6_PlayWhilePlayingIsNoOp ==
  [][(op' = "play" /\ isPlaying = "true") =>
       /\ UNCHANGED <<frame, prevFrame, currentDelay, currentTweenIndex,
                      isPlaying, repeat, attrs, listeners, subjects>>
       /\ emitted' = <<>>]_vars

\* play() was called on a playing animation in the middle of a play-through.
C6_Witness ==
  op = "play" /\ emitted = <<>> /\ isPlaying = "true" /\ frame > 0

\* C7: pause() leaves the animation not playing and not subscribed, and
\* frame, prevFrame, currentDelay, currentTweenIndex and the repeat counter as
\* they were; a second pause() right after it, and a pause() of an animation
\* that is not playing, change none of these.
C7_PauseIdempotent ==
  [][op' = "pause" =>
       /\ isPlaying' = "false"
       /\ listeners' = 0
       /\ UNCHANGED <<frame, prevFrame, currentDelay, currentTweenIndex,
                      repeat, attrs, subjects>>
       /\ isPlaying # "true" => listeners' = listeners
       /\ op = "pause" => UNCHANGED <<isPlaying, listeners>>]_vars

\* pause() stopped a play-through under way.
C7_Witness ==
  op = "pause" /\ frame > 0 /\ isPlaying = "false" /\ listeners = 0

Largest(rs) == CHOOSE r \in rs : \A q \in rs : ~RLess(r, q)

\* C9: the duration is the larger of the declared duration and the largest
\* frame a keyframe label resolved to, at construction and ever after.
C9_DurationIsMaximum ==
  duration.v = Largest({R(args.duration)} \cup DOMAIN keyframes)

\* The frame C10 gives for a label.
ClaimedFrame(label) ==
  CASE label.kind = "num" -> R(label.n)
    [] label.kind \in {"from", "start"} -> R(0)
    [] label.kind \in {"to", "end"} -> R(args.duration)
    [] label.kind = "pct" -> Rat(args.duration * label.n, 100)
    [] OTHER -> ToFrameNumber(label.n)

\* C10: the keyframe map's frames are the frames ClaimedFrame gives for the
\* declared labels (the duration being the declared one), and as built by
\* the constructor each frame holds the property map of the label resolving
\* to it that Object.keys lists last.
C10_LabelResolution ==
  LET ks == OwnKeys(args.keyframes)
      Last(f) == CHOOSE i \in DOMAIN ks :
                   /\ ClaimedFrame(ks[i].label) = f
                   /\ \A j \in DOMAIN ks :
                        j > i => ClaimedFrame(ks[j].label) # f
  IN  /\ DOMAIN keyframes = {ClaimedFrame(ks[i].label) : i \in DOMAIN ks}
      /\ op = "new" =>
           \A f \in DOMAIN keyframes : keyframes[f] = ks[Last(f)].props

\* 'from' declared before the label 0: both resolve to frame 0, Object.keys
\* lists 0 first, and the map holds what 'from' declared.
C10_Witness ==
  /\ op = "new"
  /\ Len(args.keyframes) = 2
  /\ args.keyframes[1].label = KwLabel("from")
  /\ args.keyframes[2].label = NumLabel(0)
  /\ DOMAIN keyframes = {R(0)}
  /\ keyframes[R(0)] = args.keyframes[1].props

\* The frame the last operation stepped to: progress * duration.
SteppedFrame == RMul(stepped[1], duration.v)

\* onStep has stepped to a frame in 1..duration.
SteppedInRange ==
  /\ op = "onStep" /\ stepped # <<>> /\ ~threw
  /\ SteppedFrame.d = 1
  /\ ~RLess(SteppedFrame, R(1)) /\ ~RLess(duration.v, SteppedFrame)

KeySet == {keys[i] : i \in DOMAIN keys}

\* The keyframes before frame f, frame 0 being one whether declared or not,
\* and the keyframes at or after f.
Before(f) == {k \in KeySet \cup {R(0)} : RLess(k, f)}
AtOrAfter(f) == {k \in KeySet : ~RLess(k, f)}

Smallest(rs) == CHOOSE r \in rs : \A q \in rs : ~RLess(q, r)

\* The values subject s has at keyframe k: at frame 0 its attributes when the
\* animation was built, overlaid with the frame-0 keyframe if there is one.
FramePoint(s, k) ==
  IF k = R(0) THEN InitialAttributes(args.attrs[s], keyframes)
  ELSE keyframes[k]

\* The linear interpolation at frame f between keyframes lo and hi.
Between(s, lo, hi, f) ==
  At(FramePoint(s, lo), keyframes[hi], RDiv(RSub(f, lo), RSub(hi, lo)))

\* C11 (as claimed): at every frame f in 1..duration that onStep steps to,
\* the keyframe before f and a keyframe at or after f exist, and every bound
\* subject is given the linear interpolation between the two.
C11_PiecewiseLinear ==
  SteppedInRange =>
    LET f == SteppedFrame
    IN  /\ AtOrAfter(f) # {}
        /\ \A i \in DOMAIN subjects :
             applied[i] = Between(subjects[i].subject, Largest(Before(f)),
                                  Smallest(AtOrAfter(f)), f)

\* C11 (amended): up to the last keyframe the applied values are the linear
\* interpolation between the keyframe before f and the next keyframe at or
\* after f; past the last keyframe, when it lies before the duration, they
\* are the last segment's line continued beyond that keyframe.
C11_PiecewiseLinearThenContinued ==
  SteppedInRange =>
    LET f == SteppedFrame
        last == Largest(KeySet)
        hi == IF AtOrAfter(f) # {} THEN Smallest(AtOrAfter(f)) ELSE last
    IN  \A i \in DOMAIN subjects :
          applied[i] = Between(subjects[i].subject, Largest(Before(hi)), hi, f)

\* onStep stepped past the last keyframe and applied the continued line.
C11_Witness ==
  /\ SteppedInRange /\ AtOrAfter(SteppedFrame) = {}
  /\ applied # <<>> /\ applied[1]["x"] = R(16)

\* The properties named in any keyframe.
Tracked == UNION {DOMAIN keyframes[k] : k \in KeySet}

\* Whether keyframe keys[i] lacks p and no earlier keyframe defines it.
NoBackwardValue(p, i) ==
  \A j \in 1..i : p \notin DOMAIN keyframes[keys[j]]

\* C12: adding the first subject raises the error if and only if some
\* tracked property is missing at a keyframe, no earlier keyframe defines
\* it, and the subject's snapshot merged with the frame-0 keyframe has no
\* value for it.
C12_FillErrorIff ==
  [][(op' = "addSubject" /\ subjects = <<>>) =>
       (threw' <=>
          \E p \in Tracked, i \in DOMAIN keys :
            /\ NoBackwardValue(p, i)
            /\ p \notin DOMAIN InitialAttributes(attrs[opArg'], keyframes))]_vars

\* A property map gives p a value, and the value is a number.
Defines(map, p) == p \in DOMAIN map /\ map[p] # NaN

\* Every keyframe defines every tracked property.
KeyframesFilled == \A k \in KeySet, p \in Tracked : Defines(keyframes[k], p)

\* C13: once a subject is bound, every tracked property has a defined value
\* at every keyframe, and every segment of every bound subject has a defined
\* from-value and a defined to-value for every tracked property.
C13_FilledEverywhere ==
  subjects # <<>> =>
    /\ KeyframesFilled
    /\ \A i \in DOMAIN subjects : \A t \in DOMAIN subjects[i].tweens :
         \A p \in Tracked :
           /\ Defines(subjects[i].tweens[t].fromValues, p)
           /\ Defines(subjects[i].tweens[t].toValues, p)

\* C14: step(progress) called a second time with the same progress, with a
\* subject bound, applies the same values to every subject as the first call
\* and leaves currentTweenIndex and the subjects' attributes as the first
\* call left them.
C14_StepIdempotent ==
  [][(op' = "step" /\ opArg' = "again" /\ subjects # <<>>) =>
       /\ applied' = applied
       /\ threw' = threw
       /\ UNCHANGED <<currentTweenIndex, attrs>>]_vars

\* step() was repeated after a call that had moved on to a later tween, with
\* two subjects bound.
C14_Witness ==
  /\ op = "step" /\ opArg = "again" /\ ~threw
  /\ currentTweenIndex > 0 /\ Len(subjects) = 2 /\ Len(applied) = 2

\* C15: the clock holds onStep as a listener at most once, and holds it
\* exactly when the animation is marked playing.
C15_OneSubscriptionIffPlaying ==
  /\ listeners <= 1
  /\ listeners = 1 <=> isPlaying = "true"

\* onStep completed a play-through and its own play() started the next one:
\* the listener was removed by reset() and registered again.
C15_Witness ==
  /\ op = "onStep" /\ Has(emitted, "play")
  /\ history.completed > 0
  /\ listeners = 1 /\ isPlaying = "true"

\* The keyframes at a frame other than 0, ascending.
NonZeroKeys == SelectSeq(keys, LAMBDA k : k # R(0))

\* What C16 says of every bound subject's segments but for where the last
\* one ends: one segment per non-zero keyframe, each window starting where
\* the one before it ends, the first at 0, each ending after it starts, and
\* the same windows for every subject.
SegmentWindows ==
  \A i \in DOMAIN subjects :
    LET tw == subjects[i].tweens
    IN  /\ Len(tw) = Len(NonZeroKeys)
        /\ \A t \in DOMAIN tw :
             /\ tw[t].startProgress =
                  (IF t = 1 THEN R(0) ELSE tw[t - 1].endProgress)
             /\ RLess(tw[t].startProgress, tw[t].endProgress)
             /\ tw[t].startProgress = subjects[1].tweens[t].startProgress
             /\ tw[t].endProgress = subjects[1].tweens[t].endProgress

\* C16 (as claimed): the windows are as above and the last one ends at 1.
C16_SegmentsPartitionUnitInterval ==
  /\ SegmentWindows
  /\ \A i \in DOMAIN subjects :
       LET tw == subjects[i].tweens
       IN  tw # <<>> => tw[Len(tw)].endProgress = R(1)

\* C16 (amended): the windows are as above and each ends at its keyframe's
\* frame divided by the duration, so the last one ends at 1 exactly when a
\* keyframe lies at the duration.
C16_SegmentsEndAtTheirKeyframes ==
  /\ SegmentWindows
  /\ \A i \in DOMAIN subjects : \A t \in DOMAIN subjects[i].tweens :
       subjects[i].tweens[t].endProgress = RDiv(NonZeroKeys[t], duration.v)

\* Two subjects bound to a schedule whose last keyframe, the second of two
\* non-zero ones, lies at half the duration.
C16_Witness ==
  /\ Len(subjects) = 2 /\ Len(NonZeroKeys) = 2
  /\ Len(subjects[2].tweens) = 2
  /\ subjects[2].tweens[2].endProgress = Rat(1, 2)

\* The keyframes before keys[i], and those after it, that define p.
EarlierDefining(p, i) ==
  {keys[j] : j \in {h \in 1..(i - 1) : p \in DOMAIN keyframes[keys[h]]}}
LaterDefining(p, i) ==
  {keys[j] : j \in {h \in (i + 1)..Len(keys) : p \in DOMAIN keyframes[keys[h]]}}

\* The value C17 gives to p at keys[i], which lacks it: the backward value is
\* that of the nearest earlier keyframe defining p, or the subject's initial
\* value, taken at frame 0, when there is none.
ClaimedFill(p, i, initialValues) ==
  LET earlier == EarlierDefining(p, i)
      later == LaterDefining(p, i)
      backFrame == IF earlier # {} THEN Largest(earlier) ELSE R(0)
      backValue == IF earlier # {} THEN keyframes[backFrame][p]
                   ELSE initialValues[p]
      foreFrame == Smallest(later)
  IN  IF later = {} THEN backValue
      ELSE Lerp(backValue, keyframes[foreFrame][p],
                RDiv(RSub(keys[i], backFrame), RSub(foreFrame, backFrame)))

\* C17: the first addSubject that returns normally gives every property a
\* keyframe lacked the value interpolated between the nearest earlier and the
\* nearest later keyframe that declare it.
C17_FillInterpolates ==
  [][(op' = "addSubject" /\ subjects = <<>> /\ ~threw') =>
       \A i \in DOMAIN keys, p \in Tracked :
         p \notin DOMAIN keyframes[keys[i]] =>
           keyframes'[keys[i]][p] =
             ClaimedFill(p, i, InitialAttributes(attrs[opArg'], keyframes))]_vars

\* C18 (as claimed): a finite repeat counter is never negative.
C18_RepeatNeverNegative == ~repeat.inf => repeat.n >= 0

\* onStep completed a play-through: it emitted 'end', or the 'play' of the
\* next cycle.
Completed(events) == Has(events, "end") \/ Has(events, "play")

\* C18 (amended): a finite repeat counter is decremented by every completion,
\* the one that emits 'end' included, and by nothing else; the completion
\* starts a repeat cycle exactly when the counter was still positive.
C18_DecrementedAtEveryCompletion ==
  [][~repeat.inf =>
       IF op' = "onStep" /\ Completed(emitted')
         THEN /\ repeat' = [repeat EXCEPT !.n = @ - 1]
              /\ Has(emitted', "play") <=> repeat.n > 0
              /\ Has(emitted', "end") <=> repeat.n <= 0
         ELSE repeat' = repeat]_vars

\* The completion that emitted 'end' left the counter at -1.
C18_Witness ==
  /\ op = "onStep" /\ Has(emitted, "end")
  /\ ~repeat.inf /\ repeat.n = -1 /\ history.completed = args.repeat.n + 1

\* C19: the frame counter stays within 0..duration, and so does every frame
\* whose progress frame/duration was passed to step.
C19_FrameWithinDuration ==
  /\ 0 <= frame /\ ~RLess(duration.v, R(frame))
  /\ (op = "onStep" /\ stepped # <<>>) =>
       ~RLess(stepped[1], R(0)) /\ ~RLess(R(1), stepped[1])

\* C20: a play-through started at frame 0 and neither paused nor reset, on a
\* timeline never reported finished, completes: every signal counts the delay
\* down or advances the frame counter, so no play-through under way has
\* received delay + duration signals without having completed.
C20_PlayThroughCompletes ==
  history.run >= 0 => RLess(R(history.run), RAdd(R(delay), duration.v))

====
